---- MODULE Spec2Model ----
(***************************************************************************)
(* Model of the binary-search crate: the elementary search (core.rs,       *)
(* lib.rs), the rank queries (ranks.rs), exponential and interpolation     *)
(* search (variations/) and the stateful UniformBinarySearch               *)
(* (variations/uniform.rs).                                                *)
(*                                                                         *)
(* Indices are usize.  Sequences of the model are 1-based, so the element  *)
(* arr[i] of the source is arr[i + 1] here.  A usize subtraction that goes *)
(* below zero panics when the build has overflow checks (debug profile)    *)
(* and wraps modulo the word size otherwise (release profile); the build   *)
(* profile is the variable overflow_checks.  TLC's integers are 32 bits    *)
(* wide, so the word modulus 2^64 is represented by USIZE_MODULUS = 2^30:  *)
(* like 2^64 it is larger than every length and every index the model can  *)
(* form, which is all the code's behaviour depends on.                     *)
(***************************************************************************)
EXTENDS Integers, Sequences, FiniteSets, TLC

\* ---------------------------------------------------------------- bounds
MaxLen == 6
MaxVal == 2
MaxTableLen == 16

MAX_LOOKUP_TABLE_SIZE == 64
USIZE_MODULUS == 1073741824

Values == 0..MaxVal

RECURSIVE SeqsOfLen(_)
SeqsOfLen(n) ==
    IF n = 0 THEN {<<>>}
    ELSE {Append(s, v) : s \in SeqsOfLen(n - 1), v \in Values}

Arrays == UNION {SeqsOfLen(n) : n \in 0..MaxLen}

\* ------------------------------------------------------- results of a call
None == [kind |-> "None", val |-> 0, msg |-> ""]
Some(i) == [kind |-> "Some", val |-> i, msg |-> ""]
Rank(n) == [kind |-> "Rank", val |-> n, msg |-> ""]
Panic(m) == [kind |-> "Panic", val |-> 0, msg |-> m]

SubOverflow == "attempt to subtract with overflow"
IndexOutOfBounds == "index out of bounds"

VARIABLES overflow_checks, last_arr_size, lookup_table, pc, op, arr, target, interpolation_fn, update_len, result

vars == <<overflow_checks, last_arr_size, lookup_table, pc, op, arr, target, interpolation_fn, update_len, result>>

\* usize subtraction in a build without overflow checks
wrapping_sub(a, b) == (a - b) % USIZE_MODULUS

\* ------------------------------------------------------------- utils.rs
is_sorted_first_pairs(a) == \A i \in 1..(Len(a) - 2) : a[i] <= a[i + 1]

is_sorted(a) == \A i \in 1..(Len(a) - 1) : a[i] <= a[i + 1]

\* -------------------------------------------------------------- core.rs
RECURSIVE core_binary_search_loop(_, _, _, _)
core_binary_search_loop(t, a, left, right) ==
    IF left <= right
    THEN LET middle == (left + right) \div 2 IN
         IF middle >= Len(a) THEN Panic(IndexOutOfBounds)
         ELSE IF a[middle + 1] = t THEN Some(middle)
         ELSE IF a[middle + 1] > t
              THEN IF middle < 1 /\ overflow_checks
                   THEN Panic(SubOverflow)
                   ELSE core_binary_search_loop(t, a, left, wrapping_sub(middle, 1))
              ELSE core_binary_search_loop(t, a, middle + 1, right)
    ELSE None

core_binary_search(t, a) ==
    IF Len(a) < 1 /\ overflow_checks
    THEN Panic(SubOverflow)
    ELSE core_binary_search_loop(t, a, 0, wrapping_sub(Len(a), 1))

\* --------------------------------------------------------------- lib.rs
BinarySearchUnsorted == "Binary search encountered an array that is note sorted"

binary_search(t, a) ==
    IF ~is_sorted(a) THEN Panic(BinarySearchUnsorted)
    ELSE IF a = <<>> THEN None
    ELSE core_binary_search(t, a)

\* ------------------------------------------------------------- ranks.rs
RECURSIVE leftmost_rank_loop_le(_, _, _, _)
leftmost_rank_loop_le(t, a, left, right) ==
    IF left < right
    THEN LET middle == (left + right) \div 2 IN
         IF a[middle + 1] <= t
         THEN leftmost_rank_loop_le(t, a, middle + 1, right)
         ELSE leftmost_rank_loop_le(t, a, left, middle)
    ELSE left

RECURSIVE leftmost_rank_loop(_, _, _, _)
leftmost_rank_loop(t, a, left, right) ==
    IF left < right
    THEN LET middle == (left + right) \div 2 IN
         IF a[middle + 1] < t
         THEN leftmost_rank_loop(t, a, middle + 1, right)
         ELSE leftmost_rank_loop(t, a, left, middle)
    ELSE left

leftmost_rank(t, a) ==
    IF ~is_sorted(a) THEN Panic(BinarySearchUnsorted)
    ELSE IF a = <<>> THEN Rank(0)
    ELSE Rank(leftmost_rank_loop(t, a, 0, Len(a)))

RECURSIVE rightmost_rank_loop(_, _, _, _)
rightmost_rank_loop(t, a, left, right) ==
    IF left < right
    THEN LET middle == (left + right) \div 2 IN
         IF a[middle + 1] > t
         THEN rightmost_rank_loop(t, a, left, middle)
         ELSE rightmost_rank_loop(t, a, middle + 1, right)
    ELSE right

rightmost_rank(t, a) ==
    IF ~is_sorted(a) THEN Panic(BinarySearchUnsorted)
    ELSE IF a = <<>> THEN Rank(0)
    ELSE LET right == rightmost_rank_loop(t, a, 0, Len(a)) IN
         IF right < 1 /\ overflow_checks
         THEN Panic(SubOverflow)
         ELSE Rank(wrapping_sub(right, 1))

\* ------------------------------------------ variations/exponential_search.rs
ExponentialSearchUnsorted == "Exponential search encountered an array that is note sorted"

min(x, y) == IF x <= y THEN x ELSE y

RECURSIVE exponential_bound(_, _, _)
exponential_bound(t, a, bound) ==
    IF bound < Len(a) /\ a[bound + 1] < t
    THEN exponential_bound(t, a, bound * 2)
    ELSE bound

exponential_search(t, a) ==
    IF ~is_sorted(a) THEN Panic(ExponentialSearchUnsorted)
    ELSE IF a = <<>> THEN None
    ELSE LET arr_size == Len(a)
             bound == exponential_bound(t, a, 1)
             left_bound == bound \div 2
             right_bound == min(bound + 1, arr_size)
             slice == SubSeq(a, left_bound + 1, right_bound)
             found == core_binary_search(t, slice)
         IN  IF found.kind = "Some" THEN Some(found.val + left_bound) ELSE found

\* ----------------------------------------- variations/interpolation_search.rs
InterpolationSearchUnsorted == "Interpolation search encountered an array that is note sorted"

\* the closures a caller passes as interpolation_fn: the linear interpolation
\* of linear_interpolation_search and a constant step
InterpolationFns == {"linear", "one"}

linear_interpolation(t, l, r) == (t - l) \div (r - l)

call_interpolation_fn(f, t, l, r) ==
    IF f = "linear" THEN linear_interpolation(t, l, r) ELSE 1

RECURSIVE interpolation_search_loop(_, _, _, _, _)
interpolation_search_loop(t, a, f, left, right) ==
    IF ~(left <= right) THEN None
    ELSE IF right >= Len(a) THEN Panic(IndexOutOfBounds)
    ELSE IF ~(t < a[right + 1]) THEN None
    ELSE IF left >= Len(a) THEN Panic(IndexOutOfBounds)
    ELSE IF ~(t > a[left + 1]) THEN None
    ELSE LET middle == left + call_interpolation_fn(f, t, a[left + 1], a[right + 1]) IN
         IF middle >= Len(a) THEN Panic(IndexOutOfBounds)
         ELSE IF a[middle + 1] = t THEN Some(middle)
         ELSE IF a[middle + 1] > t /\ middle < 1 /\ overflow_checks
              THEN Panic(SubOverflow)
         ELSE LET left2 == IF a[middle + 1] < t THEN middle + 1 ELSE left
                  right2 == IF a[middle + 1] > t THEN wrapping_sub(middle, 1) ELSE right
              IN  IF left2 >= Len(a) THEN Panic(IndexOutOfBounds)
                  ELSE IF a[left2 + 1] = t THEN Some(left2)
                  ELSE interpolation_search_loop(t, a, f, left2, right2)

interpolation_search(t, a, f) ==
    IF ~is_sorted(a) THEN Panic(InterpolationSearchUnsorted)
    ELSE IF a = <<>> THEN None
    ELSE interpolation_search_loop(t, a, f, 0, Len(a) - 1)

linear_interpolation_search(t, a) == interpolation_search(t, a, "linear")

\* ------------------------------------------------------ variations/uniform.rs
UniformSearchUnsorted == "Uniform binary search encountered an array that is note sorted"

\* Option<usize>
NoSize == [is_some |-> FALSE, value |-> 0]
SomeSize(n) == [is_some |-> TRUE, value |-> n]

\* UniformBinarySearch::new
new == [last_arr_size |-> NoSize,
        lookup_table |-> [i \in 0..(MAX_LOOKUP_TABLE_SIZE - 1) |-> 0]]

\* the entry computed as len / power, without the rounding term half
RECURSIVE update_lookup_table_loop_no_half(_, _, _, _)
update_lookup_table_loop_no_half(table, len, power, i) ==
    LET power2 == power * 2
        entry == len \div power2
        table2 == [table EXCEPT ![i] = entry]
    IN  IF entry = 0 THEN table2
        ELSE update_lookup_table_loop_no_half(table2, len, power2, i + 1)

RECURSIVE update_lookup_table_loop(_, _, _, _)
update_lookup_table_loop(table, len, power, i) ==
    LET half == power
        power2 == power * 2
        entry == (len + half) \div power2
        table2 == [table EXCEPT ![i] = entry]
    IN  IF entry = 0 THEN table2
        ELSE update_lookup_table_loop(table2, len, power2, i + 1)

\* the loop without the store of the terminating zero entry
RECURSIVE update_lookup_table_no_zero(_, _, _, _)
update_lookup_table_no_zero(table, len, power, i) ==
    LET half == power
        power2 == power * 2
        entry == (len + half) \div power2
    IN  IF entry = 0 THEN table
        ELSE update_lookup_table_no_zero([table EXCEPT ![i] = entry], len, power2, i + 1)

update_lookup_table_keep_tail(table, len) == update_lookup_table_no_zero(table, len, 1, 0)

update_lookup_table(table, len) == update_lookup_table_loop(table, len, 1, 0)

RECURSIVE inner_search_loop(_, _, _, _, _)
inner_search_loop(table, t, a, index, lookup_table_index) ==
    IF table[lookup_table_index] = 0 THEN None
    ELSE IF index >= Len(a) THEN Panic(IndexOutOfBounds)
    ELSE IF a[index + 1] = t THEN Some(index)
    ELSE LET next == lookup_table_index + 1 IN
         IF a[index + 1] < t
         THEN inner_search_loop(table, t, a, (index + table[next]) % USIZE_MODULUS, next)
         ELSE IF table[next] > index /\ overflow_checks
              THEN Panic(SubOverflow)
              ELSE inner_search_loop(table, t, a, wrapping_sub(index, table[next]), next)

\* the first probe taken at table[0] instead of table[0] - 1
inner_search_first_probe(table, t, a) ==
    inner_search_loop(table, t, a, table[0], 0)

inner_search(table, t, a) ==
    IF table[0] < 1 /\ overflow_checks
    THEN Panic(SubOverflow)
    ELSE inner_search_loop(table, t, a, wrapping_sub(table[0], 1), 0)

\* UniformBinarySearch::search on the searcher self: the searcher it leaves
\* and the value it returns.  No statement of search assigns last_arr_size.
search_no_empty_check(self, t, a) ==
    IF ~is_sorted(a)
    THEN [self |-> self, ret |-> Panic(UniformSearchUnsorted)]
    ELSE LET table == update_lookup_table(self.lookup_table, Len(a))
         IN  [self |-> [self EXCEPT !.lookup_table = table],
              ret |-> inner_search(table, t, a)]

search(self, t, a) ==
    IF ~is_sorted(a)
    THEN [self |-> self, ret |-> Panic(UniformSearchUnsorted)]
    ELSE IF a = <<>>
    THEN [self |-> self, ret |-> None]
    ELSE LET arr_len == Len(a)
             table == IF self.last_arr_size.is_some
                      THEN IF self.last_arr_size.value # arr_len
                           THEN update_lookup_table(self.lookup_table, arr_len)
                           ELSE self.lookup_table
                      ELSE update_lookup_table(self.lookup_table, arr_len)
         IN  [self |-> [self EXCEPT !.lookup_table = table],
              ret |-> inner_search(table, t, a)]

\* ------------------------------------------------------------ state machine
\* The application calls one operation at a time (pc = "idle" -> "returned")
\* and then drops the returned value (Return).
Init ==
    /\ overflow_checks \in BOOLEAN
    /\ last_arr_size = new.last_arr_size
    /\ lookup_table = new.lookup_table
    /\ pc = "idle"
    /\ op = "new"
    /\ arr = <<>>
    /\ target = 0
    /\ interpolation_fn = "linear"
    /\ update_len = 0
    /\ result = None

Call(name, t, a, f, r) ==
    /\ pc' = "returned"
    /\ op' = name
    /\ target' = t
    /\ arr' = a
    /\ interpolation_fn' = f
    /\ update_len' = 0
    /\ result' = r
    /\ UNCHANGED overflow_checks

BinarySearch ==
    /\ pc = "idle"
    /\ \E t \in Values, a \in Arrays :
        /\ Call("binary_search", t, a, "linear", binary_search(t, a))
        /\ UNCHANGED <<last_arr_size, lookup_table>>

LeftmostRank ==
    /\ pc = "idle"
    /\ \E t \in Values, a \in Arrays :
        /\ Call("leftmost_rank", t, a, "linear", leftmost_rank(t, a))
        /\ UNCHANGED <<last_arr_size, lookup_table>>

RightmostRank ==
    /\ pc = "idle"
    /\ \E t \in Values, a \in Arrays :
        /\ Call("rightmost_rank", t, a, "linear", rightmost_rank(t, a))
        /\ UNCHANGED <<last_arr_size, lookup_table>>

ExponentialSearch ==
    /\ pc = "idle"
    /\ \E t \in Values, a \in Arrays :
        /\ Call("exponential_search", t, a, "linear", exponential_search(t, a))
        /\ UNCHANGED <<last_arr_size, lookup_table>>

InterpolationSearch ==
    /\ pc = "idle"
    /\ \E t \in Values, a \in Arrays, f \in InterpolationFns :
        /\ Call("interpolation_search", t, a, f, interpolation_search(t, a, f))
        /\ UNCHANGED <<last_arr_size, lookup_table>>

LinearInterpolationSearch ==
    /\ pc = "idle"
    /\ \E t \in Values, a \in Arrays :
        /\ Call("linear_interpolation_search", t, a, "linear", linear_interpolation_search(t, a))
        /\ UNCHANGED <<last_arr_size, lookup_table>>

UniformSearch ==
    /\ pc = "idle"
    /\ \E t \in Values, a \in Arrays :
        LET self == [last_arr_size |-> last_arr_size, lookup_table |-> lookup_table]
            out == search(self, t, a)
        IN  /\ Call("uniform_search", t, a, "linear", out.ret)
            /\ last_arr_size' = out.self.last_arr_size
            /\ lookup_table' = out.self.lookup_table

Return ==
    /\ pc = "returned"
    /\ pc' = "idle"
    /\ op' = "new"
    /\ arr' = <<>>
    /\ target' = 0
    /\ interpolation_fn' = "linear"
    /\ update_len' = 0
    /\ result' = None
    /\ UNCHANGED <<overflow_checks, last_arr_size, lookup_table>>

Next ==
    \/ BinarySearch
    \/ LeftmostRank
    \/ RightmostRank
    \/ ExponentialSearch
    \/ InterpolationSearch
    \/ LinearInterpolationSearch
    \/ UniformSearch
    \/ Return

Spec == Init /\ [][Next]_vars

\* update_lookup_table called on the searcher directly, as the unit tests of
\* uniform.rs do (it is private to the module); it returns nothing.
UpdateLookupTable ==
    /\ pc = "idle"
    /\ \E n \in 0..MaxTableLen :
        /\ pc' = "returned"
        /\ op' = "update_lookup_table"
        /\ update_len' = n
        /\ lookup_table' = update_lookup_table(lookup_table, n)
        /\ arr' = <<>>
        /\ target' = 0
        /\ interpolation_fn' = "linear"
        /\ result' = None
        /\ UNCHANGED <<overflow_checks, last_arr_size>>

NextTable ==
    \/ UpdateLookupTable
    \/ Return

SpecTable == Init /\ [][NextTable]_vars

\* ------------------------------------------------------------------ claims
Returned(name) == pc = "returned" /\ op = name

Occurs(t, a) == \E i \in 1..Len(a) : a[i] = t

\* the value ret is Some(j) with j an index of arr holding the target
FoundAt(ret) ==
    /\ ret.kind = "Some"
    /\ ret.val \in 0..(Len(arr) - 1)
    /\ arr[ret.val + 1] = target

\* C1: a uniform search for an element of a non-empty sorted sequence
\* returns Some(j) with 0 <= j < len and arr[j] = target.
C1_UniformFound ==
    (Returned("uniform_search") /\ is_sorted(arr) /\ Occurs(target, arr))
        => FoundAt(result)

\* a target larger than every other element of a sequence of at least four
\* elements is found at the last index, by advancing at every table depth
C1_Witness ==
    /\ Returned("uniform_search")
    /\ Len(arr) >= 4
    /\ is_sorted(arr)
    /\ arr[Len(arr) - 1] < target
    /\ result = Some(Len(arr) - 1)

\* C2: a uniform search for a target that does not occur in a non-empty
\* sorted sequence returns None.
C2_UniformNotFound ==
    (Returned("uniform_search") /\ is_sorted(arr) /\ arr # <<>> /\ ~Occurs(target, arr))
        => result = None

\* C3: a search on a searcher that has served earlier searches returns what
\* a freshly created searcher returns for the same target and sequence.
C3_CacheCorrect ==
    Returned("uniform_search") => result = search(new, target, arr).ret

\* a search served with a table that still holds entries of a longer array
C3_Witness ==
    /\ Returned("uniform_search")
    /\ arr # <<>>
    /\ is_sorted(arr)
    /\ lookup_table # search(new, target, arr).self.lookup_table
    /\ result.kind = "Some"

\* C4: binary_search on a non-empty sorted sequence returns Some(j) with
\* arr[j] = target when the target occurs and None when it does not.
C4_BinarySearch ==
    (Returned("binary_search") /\ is_sorted(arr) /\ arr # <<>>)
        => IF Occurs(target, arr) THEN FoundAt(result) ELSE result = None

\* C5: exponential_search on a non-empty sorted sequence returns Some(j)
\* with arr[j] = target when the target occurs and None when it does not.
C5_ExponentialSearch ==
    (Returned("exponential_search") /\ is_sorted(arr) /\ arr # <<>>)
        => IF Occurs(target, arr) THEN FoundAt(result) ELSE result = None

\* C6: linear_interpolation_search on a non-empty sorted sequence returns
\* Some(j) with arr[j] = target when the target occurs (first and last
\* position and one-element sequences included) and None when it does not.
C6_LinearInterpolationSearch ==
    (Returned("linear_interpolation_search") /\ is_sorted(arr) /\ arr # <<>>)
        => IF Occurs(target, arr) THEN FoundAt(result) ELSE result = None

\* C7: rightmost_rank on a non-empty sorted sequence returns the number of
\* elements <= target, minus one.
C7_RightmostRank ==
    (Returned("rightmost_rank") /\ is_sorted(arr) /\ arr # <<>>)
        => result = Rank(Cardinality({i \in 1..Len(arr) : arr[i] <= target}) - 1)

\* C8: leftmost_rank on a sorted sequence returns the number of elements
\* strictly less than the target (0 for the empty sequence).
C8_LeftmostRank ==
    (Returned("leftmost_rank") /\ is_sorted(arr))
        => result = Rank(Cardinality({i \in 1..Len(arr) : arr[i] < target}))

\* a run of equal elements in the middle of the sequence: the rank is the
\* first index of the run
C8_Witness ==
    /\ Returned("leftmost_rank")
    /\ is_sorted(arr)
    /\ Len(arr) >= 4
    /\ arr[1] < target
    /\ arr[2] = target
    /\ arr[3] = target
    /\ arr[Len(arr)] > target
    /\ result = Rank(1)

UnsortedMessage(name) ==
    CASE name \in {"binary_search", "leftmost_rank", "rightmost_rank"} -> BinarySearchUnsorted
      [] name = "exponential_search" -> ExponentialSearchUnsorted
      [] name \in {"interpolation_search", "linear_interpolation_search"} -> InterpolationSearchUnsorted
      [] OTHER -> UniformSearchUnsorted

\* C9: every public operation called with a sequence that has a descending
\* adjacent pair ends in the unsorted-input panic, whatever the target.
C9_UnsortedPanics ==
    (pc = "returned" /\ \E i \in 1..(Len(arr) - 1) : arr[i] > arr[i + 1])
        => result = Panic(UnsortedMessage(op))

\* the target occurs in an unsorted sequence whose only descending pair is
\* the last one
C9_Witness ==
    /\ pc = "returned"
    /\ op \in {"uniform_search", "rightmost_rank"}
    /\ Len(arr) >= 3
    /\ is_sorted(SubSeq(arr, 1, Len(arr) - 1))
    /\ arr[Len(arr) - 1] > arr[Len(arr)]
    /\ Occurs(target, arr)
    /\ result.kind = "Panic"

\* C10: a uniform search on the empty sequence returns None and leaves the
\* cached length and every entry of the step table unchanged.
C10_EmptyFrame ==
    [][(pc = "idle" /\ pc' = "returned" /\ op' = "uniform_search" /\ arr' = <<>>)
          => (/\ result' = None
              /\ last_arr_size' = last_arr_size
              /\ lookup_table' = lookup_table)]_vars

\* an empty search answered by a searcher whose table was built before
C10_Witness ==
    /\ Returned("uniform_search")
    /\ arr = <<>>
    /\ lookup_table[0] > 0
    /\ result = None

\* C11: after every search on a non-empty sorted sequence of length L the
\* searcher is in state Cached(L): its cached length is Some(L).
C11_CachedAfterSearch ==
    (Returned("uniform_search") /\ is_sorted(arr) /\ arr # <<>>)
        => last_arr_size = SomeSize(Len(arr))

\* floor((L + 2^i) / 2^(i + 1))
TableEntry(L, i) == (L + 2^i) \div 2^(i + 1)

\* the first index whose entry is 0
RECURSIVE TableEnd(_, _)
TableEnd(L, i) == IF TableEntry(L, i) = 0 THEN i ELSE TableEnd(L, i + 1)

TableBuilt ==
    LET L == update_len
        k == TableEnd(L, 0)
    IN  /\ k < MAX_LOOKUP_TABLE_SIZE
        /\ \A i \in 0..k : lookup_table[i] = TableEntry(L, i)
        /\ \A i \in 0..(k - 1) : lookup_table[i] > 0
        /\ lookup_table[k] = 0
        /\ L >= 1 => lookup_table[0] - 1 = (0 + (L - 1)) \div 2
        /\ L = 8 => /\ lookup_table[0] = 4
                    /\ lookup_table[1] = 2
                    /\ lookup_table[2] = 1
                    /\ lookup_table[3] = 1
                    /\ lookup_table[4] = 0
        /\ L = 1 => lookup_table[0] = 1

\* C12: update_lookup_table(L) leaves table[i] = floor((L + 2^i) / 2^(i+1))
\* for i = 0..k, k the first index with a zero entry; the entries before k
\* are positive and table[0] - 1 is the floor midpoint of [0, L - 1]; length
\* 8 gives 4,2,1,1,0, length 1 gives table[0] = 1, and length 0 on a fresh
\* searcher leaves the table all zero.
C12_TableConstruction ==
    [][(pc = "idle" /\ op' = "update_lookup_table")
          => /\ TableBuilt'
             /\ (update_len' = 0 /\ lookup_table = new.lookup_table)
                   => lookup_table' = new.lookup_table]_vars

\* the table of length 8, built over the table of a longer array
C12_Witness ==
    /\ Returned("update_lookup_table")
    /\ update_len = 8
    /\ lookup_table[0] = 4
    /\ lookup_table[1] = 2
    /\ lookup_table[3] = 1
    /\ lookup_table[4] = 0

====
